---- MODULE Spec2Model ----
(***************************************************************************)
(* Model of main.py of uniqlo_tracker: the main task (initialization and   *)
(* the poll loop with its diff and notifications) and the listener thread  *)
(* (add / remove commands), sharing product_urls (the Watch-list) and      *)
(* product_history (the Snapshot Store) under two locks.                   *)
(*                                                                         *)
(* Prices are integers (price units); strings that only label things are   *)
(* short strings.  A dict is a function; the iteration order of a dict is  *)
(* its insertion order, which depends on the order of products.json and of *)
(* earlier commands, and is modelled as any order.                         *)
(***************************************************************************)
EXTENDS Integers, Sequences, FiniteSets, TLC

\* ------------------------------------------------------------------ bounds
MaxPrice == 2
MaxQuantity == 5

\* main.py:247 and main.py:371, "quantity <= 3"
LowQuantity == 3

Prices == 1..MaxPrice
Quantities == LowQuantity..MaxQuantity
StatusCodes == {"IN_STOCK", "LOW_STOCK", "STOCK_OUT"}

\* ------------------------------------------------------------------- URLs
\* A URL is its scheme, its path and the query parameters parse_product_url
\* reads; "" stands for an absent parameter (parse_qs drops blank values).
\* A colorCode / sizeCode is a letter prefix and digits ("COL" + "09").
\* extra: the query holds something else (another parameter, another order).
NoCode == [pre |-> "", num |-> ""]

Url(scheme, path, cc, sc, cdc, sdc, extra) ==
    [scheme |-> scheme, path |-> path, colorCode |-> cc, sizeCode |-> sc,
     colorDisplayCode |-> cdc, sizeDisplayCode |-> sdc, extra |-> extra]

\* the letter prefixes of the API's colors[0].code and sizes[0].code
ApiColorPrefix == "COL"
ApiSizePrefix == "SMA"

\* re.sub("[^0-9]", "", code) if code else None
Digits(code) == code.num

ParseProductUrl(url) ==
    [color |-> IF url.colorDisplayCode # "" THEN url.colorDisplayCode
               ELSE Digits(url.colorCode),
     size  |-> IF url.sizeDisplayCode # "" THEN url.sizeDisplayCode
               ELSE Digits(url.sizeCode)]

\* the modified_url of get_info, for a fetch that succeeded
GetInfoUrl(url) ==
    LET sel == ParseProductUrl(url)
    IN  Url(url.scheme, url.path,
            IF sel.color # "" THEN [pre |-> ApiColorPrefix, num |-> sel.color]
                              ELSE NoCode,
            IF sel.size # "" THEN [pre |-> ApiSizePrefix, num |-> sel.size]
                             ELSE NoCode,
            "", "", FALSE)

\* "https://www.uniqlo.com" + url.split("www.uniqlo.com")[1]
ParseUniqloUrl(url) == [url EXCEPT !.scheme = "https"]

\* the URLs of the model
U1c == Url("https", "/ca/en/products/E1",
           [pre |-> "COL", num |-> "09"], [pre |-> "SMA", num |-> "003"],
           "", "", FALSE)
U1d == Url("https", "/ca/en/products/E1", NoCode, NoCode, "09", "003", FALSE)
U2 == Url("https", "/ca/en/products/E2", NoCode, NoCode, "", "", FALSE)
U2h == Url("http", "/ca/en/products/E2", NoCode, NoCode, "", "", TRUE)

Nicknames == {"a", "b"}

\* ---------------------------------------------------------------- records
\* The fields of a product info dict the code branches on.  has_change: the
\* dict has the keys "quantity_change" and "price_change" (set by the poll
\* loop only).
NoInfo == [valid |-> FALSE, price |-> 0, statusCode |-> "", quantity |-> 0,
           nickname |-> "", has_change |-> FALSE]

Info(p, s, q) == [valid |-> TRUE, price |-> p, statusCode |-> s,
                  quantity |-> q, nickname |-> "", has_change |-> FALSE]

Records == {Info(p, s, q) : p \in Prices, s \in StatusCodes, q \in Quantities}

\* what the retailer answers in the runs of the whole system: one record
\* (the diff of every pair of records is explored by SpecDiff)
FewRecords == {r \in Records : r.price = 1 /\ r.quantity = LowQuantity + 1
                                /\ r.statusCode = "LOW_STOCK"}

Without(f, k) == [x \in DOMAIN f \ {k} |-> f[x]]
Put(f, k, v) == [x \in DOMAIN f \cup {k} |-> IF x = k THEN v ELSE f[x]]

\* ---------------------------------------------------------- notifications
Note(kind, priority, tags, diff) ==
    [kind |-> kind, priority |-> priority, tags |-> tags, diff |-> diff]

\* notify_product_added
NotifyProductAdded(product) ==
    IF product.statusCode = "STOCK_OUT" THEN Note("added", 4, "skull", 0)
    ELSE IF product.statusCode = "LOW_STOCK"
         THEN IF product.quantity <= LowQuantity
              THEN Note("added", 5, "rotating_light", 0)
              ELSE Note("added", 4, "warning", 0)
         ELSE Note("added", 3, "", 0)

\* "<" for the "!=" of main.py:325: only a decrease is reported
PriceCheckDownOnly(old, new) ==
    IF new.price < old.price
    THEN <<Note("price", 4, "tada", new.price - old.price)>>
    ELSE <<>>

\* main.py:324-338, "check price"
PriceCheck(old, new) ==
    IF new.price # old.price
    THEN <<Note("price", 4, "tada", new.price - old.price)>>
    ELSE <<>>

\* the elif of main.py:354 never matches
StatusCheckNoOut(old, new) ==
    IF new.statusCode # old.statusCode /\ new.statusCode = "LOW_STOCK"
    THEN <<Note("low_stock", 4,
                IF old.statusCode = "IN_STOCK" THEN "warning" ELSE "up,tada", 0)>>
    ELSE <<>>

\* main.py:340-362, "check stock status"
StatusCheck(old, new) ==
    IF new.statusCode # old.statusCode
    THEN IF new.statusCode = "LOW_STOCK"
         THEN <<Note("low_stock", 4,
                     IF old.statusCode = "IN_STOCK" THEN "warning" ELSE "up,tada",
                     0)>>
         ELSE IF new.statusCode = "STOCK_OUT"
              THEN <<Note("out_of_stock", 4, "skull", 0)>>
              ELSE <<>>
    ELSE <<>>

\* ">=" for the ">" of main.py:366
QuantityCheckGe(old, new) ==
    IF new.statusCode = "LOW_STOCK"
    THEN IF old.quantity >= new.quantity
         THEN IF new.quantity <= LowQuantity
              THEN <<Note("quantity_down", 5, "rotating_light", 0)>>
              ELSE <<Note("quantity_down", 3, "small_red_triangle_down", 0)>>
         ELSE <<Note("quantity_up", 3, "up", 0)>>
    ELSE <<>>

\* without the test of main.py:365
QuantityCheckAnyStatus(old, new) ==
    IF old.quantity > new.quantity
    THEN IF new.quantity <= LowQuantity
         THEN <<Note("quantity_down", 5, "rotating_light", 0)>>
         ELSE <<Note("quantity_down", 3, "small_red_triangle_down", 0)>>
    ELSE IF old.quantity < new.quantity
         THEN <<Note("quantity_up", 3, "up", 0)>>
         ELSE <<>>

\* "<" for the "<=" of main.py:371
QuantityCheckLt(old, new) ==
    IF new.statusCode = "LOW_STOCK"
    THEN IF old.quantity > new.quantity
         THEN IF new.quantity < LowQuantity
              THEN <<Note("quantity_down", 5, "rotating_light", 0)>>
              ELSE <<Note("quantity_down", 3, "small_red_triangle_down", 0)>>
         ELSE IF old.quantity < new.quantity
              THEN <<Note("quantity_up", 3, "up", 0)>>
              ELSE <<>>
    ELSE <<>>

\* main.py:364-385, "check quantity if low stock"
QuantityCheck(old, new) ==
    IF new.statusCode = "LOW_STOCK"
    THEN IF old.quantity > new.quantity
         THEN IF new.quantity <= LowQuantity
              THEN <<Note("quantity_down", 5, "rotating_light", 0)>>
              ELSE <<Note("quantity_down", 3, "small_red_triangle_down", 0)>>
         ELSE IF old.quantity < new.quantity
              THEN <<Note("quantity_up", 3, "up", 0)>>
              ELSE <<>>
    ELSE <<>>

\* the send_ntfy_notification calls of one poll of one product, in order
Diff(old, new) ==
    PriceCheck(old, new) \o StatusCheck(old, new) \o QuantityCheck(old, new)

CountKind(notes, kinds) == Cardinality({i \in 1..Len(notes) : notes[i].kind \in kinds})

\* ------------------------------------------------------------------ state
VARIABLES
    carry_on,              \* args.carry_on
    apiItems,              \* the variant records the retailer API may answer with
    product_urls,          \* the Watch-list: url -> nickname
    file,                  \* products.json
    product_history,       \* the Snapshot Store: url -> info
    product_urls_lock,     \* "free" or the thread that holds it
    product_history_lock,
    mpc,                   \* position of the main task
    mfault,                \* the exception that ended the main task
    todo,                  \* keys the running for loop has not visited yet
    m_url,                 \* url, old_info, new_info of the poll loop body
    old_info,
    new_info,
    skipped,               \* keys whose re-fetch failed in the running cycle
    notes,                 \* send_ntfy_notification calls of the main task's last step
    lpc,                   \* position of the listener
    line,                  \* the control line being processed
    l_url,                 \* url, res, is_removed of the listener
    res,
    is_removed,
    llog,                  \* the listener's last log message
    lnotes,                \* send_ntfy_notification calls for the current line
    lastAdd,               \* the add command before the current line, and the
                           \* Watch-list as it was before that command
    f_url,                 \* get_info: the url it was called with
    fpc,                   \* position inside get_info
    calls,                 \* get_info_from_api calls of this get_info call
    retries,               \* get_response: its local of that name
    attempts,              \* requests.get calls of the running get_response call
    sleeps,                \* time.sleep(retry_delay) calls of that call
    gets,                  \* requests.get calls of this get_info call
    response,              \* the body of the 2xx response get_response returned
    result,                \* what get_info returned
    fexc                   \* the exception get_info ended on

shared == <<product_urls, file, product_history>>
locks == <<product_urls_lock, product_history_lock>>
mainVars == <<mpc, mfault, todo, m_url, old_info, new_info, skipped, notes>>
listenerVars == <<lpc, line, l_url, res, is_removed, llog, lnotes, lastAdd>>
fetchVars == <<f_url, fpc, calls, retries, attempts, sleeps, gets, response,
               result, fexc>>
restVars == <<carry_on, apiItems, shared, locks, mainVars, listenerVars>>
vars == <<restVars, fetchVars>>

NoRes == [ok |-> FALSE, info |-> NoInfo]
NoLine == [domain |-> FALSE, remove |-> FALSE, name |-> FALSE, url |-> U2,
           nickname |-> ""]
NoAdd == [valid |-> FALSE, url |-> U2, urls |-> <<>>, file |-> <<>>,
          accepted |-> FALSE]

\* the orders in which a for loop may visit the keys S
Orders(S) == {o \in [1..Cardinality(S) -> S] : \A u \in S : \E i \in DOMAIN o : o[i] = u}

\* The process ends when the main thread ends on an exception (the listener
\* is a daemon thread); a with block releases its lock on the way out.
Crash(fault) ==
    /\ mpc' = "crashed"
    /\ mfault' = fault
    /\ product_urls_lock' = "free"
    /\ product_history_lock' = "free"
    /\ lpc' = "dead"
    /\ line' = NoLine
    /\ l_url' = U2
    /\ res' = NoRes
    /\ is_removed' = FALSE
    /\ llog' = ""
    /\ lnotes' = <<>>
    /\ lastAdd' = NoAdd

\* ------------------------------------------------------------ get_info
\* main.py:80, get_response(api_url, max_retries=3, retry_delay=5)
MaxRetries == 3

\* main.py:181, get_info(url, max_retries=5)
InfoRetries == 5

\* A variant of the "l2s" list: the display codes of its color and size and
\* the fields of its prices and stock.
Variant(color, size, info) == [color |-> color, size |-> size, info |-> info]

V0 == Variant("01", "003", Info(1, "IN_STOCK", MaxQuantity))
V1 == Variant("09", "003", Info(MaxPrice, "LOW_STOCK", LowQuantity))

\* The bodies of a 2xx response: text that is not JSON, JSON without
\* "result" / "items", an empty "items" list, and an item with its variants.
Body(kind, l2s) == [kind |-> kind, l2s |-> l2s]

NoBody == Body("", <<>>)

Bodies ==
    {Body(k, <<>>) : k \in {"not_json", "no_result", "empty_items"}}
    \cup {Body("item", l) : l \in {<<>>, <<V0>>, <<V0, V1>>}}

\* main.py:135-141, the selector matches the variant
Matches(variant, sel) ==
    /\ (variant.color = sel.color \/ sel.color = "")
    /\ (variant.size = sel.size \/ sel.size = "")

\* main.py:134-178, the first variant that matches; 0 if none does
FirstMatch(l2s, sel) ==
    IF \E i \in DOMAIN l2s : Matches(l2s[i], sel)
    THEN CHOOSE i \in DOMAIN l2s :
            /\ Matches(l2s[i], sel)
            /\ \A j \in 1..(i - 1) : ~Matches(l2s[j], sel)
    ELSE 0

\* main.py:120-178, get_info_from_api once get_response has returned:
\* response.json()["result"]["items"][0] is evaluated outside a try statement
GetInfoFromApi(body, sel) ==
    IF body.kind = "not_json"
    THEN [outcome |-> "raise", exc |-> "JSONDecodeError", info |-> NoInfo]
    ELSE IF body.kind = "no_result"
    THEN [outcome |-> "raise", exc |-> "KeyError", info |-> NoInfo]
    ELSE IF body.kind = "empty_items"
    THEN [outcome |-> "raise", exc |-> "IndexError", info |-> NoInfo]
    ELSE IF FirstMatch(body.l2s, sel) = 0
    THEN [outcome |-> "none", exc |-> "", info |-> NoInfo]
    ELSE [outcome |-> "info", exc |-> "",
          info |-> body.l2s[FirstMatch(body.l2s, sel)].info]

NoResult == [ok |-> FALSE, info |-> NoInfo, url |-> U2]

\* "for _ in range(max_retries)" has one more turn than it should
MoreCallsOneMore(n) == n <= InfoRetries

\* main.py:186, "for _ in range(max_retries)"
MoreCalls(n) == n < InfoRetries

\* main.py:186-187, the next get_info_from_api call and its get_response call
F_Call ==
    /\ fpc = "call"
    /\ MoreCalls(calls)
    /\ calls' = calls + 1
    /\ retries' = 0
    /\ attempts' = 0
    /\ sleeps' = 0
    /\ response' = NoBody
    /\ fpc' = "get"
    /\ UNCHANGED <<f_url, gets, result, fexc, restVars>>

\* main.py:186 and 191-192, the loop has ended without a result
F_GiveUp ==
    /\ fpc = "call"
    /\ ~MoreCalls(calls)
    /\ result' = NoResult
    /\ fpc' = "returned"
    /\ UNCHANGED <<f_url, calls, retries, attempts, sleeps, gets, response, fexc,
                   restVars>>

\* main.py:82-94 and 114-118, one requests.get of get_response
F_Get ==
    /\ fpc = "get"
    /\ retries < MaxRetries
    /\ attempts' = attempts + 1
    /\ gets' = gets + 1
    /\ \/ \* a 2xx response: return response
          \E b \in Bodies :
            /\ response' = b
            /\ fpc' = "parse"
            /\ UNCHANGED retries
       \/ \* requests.RequestException (no answer, or raise_for_status on a
          \* non-2xx status): raise after the last attempt, which
          \* get_info_from_api turns into None; sleep otherwise
          /\ retries' = retries + 1
          /\ fpc' = IF retries' = MaxRetries THEN "call" ELSE "sleep"
          /\ UNCHANGED response
    /\ UNCHANGED <<f_url, calls, sleeps, result, fexc, restVars>>

\* main.py:94, time.sleep(retry_delay)
F_Sleep ==
    /\ fpc = "sleep"
    /\ sleeps' = sleeps + 1
    /\ fpc' = "get"
    /\ UNCHANGED <<f_url, calls, retries, attempts, gets, response, result, fexc,
                   restVars>>

\* main.py:120-178 and 188-209, the body is read and get_info goes on
F_Parse ==
    /\ fpc = "parse"
    /\ LET r == GetInfoFromApi(response, ParseProductUrl(f_url))
       IN  IF r.outcome = "raise"
           THEN /\ fpc' = "raised"
                /\ fexc' = r.exc
                /\ UNCHANGED result
           ELSE IF r.outcome = "none"
           THEN /\ fpc' = "call"
                /\ UNCHANGED <<result, fexc>>
           ELSE /\ result' = [ok |-> TRUE, info |-> r.info, url |-> GetInfoUrl(f_url)]
                /\ fpc' = "returned"
                /\ UNCHANGED fexc
    /\ UNCHANGED <<f_url, calls, retries, attempts, sleeps, gets, response,
                   restVars>>

\* ------------------------------------------------------- the main task
\* main.py:303, "with product_urls_lock:"
M_Start ==
    /\ mpc = "start"
    /\ product_urls_lock = "free"
    /\ product_urls_lock' = "main"
    /\ todo' = DOMAIN product_urls
    /\ mpc' = "init"
    /\ UNCHANGED <<fetchVars, carry_on, apiItems, shared, product_history_lock, mfault,
                   m_url, old_info, new_info, skipped, notes, listenerVars>>

\* main.py:269-283, one iteration of initialize_product_history's loop
M_InitFetch ==
    /\ mpc = "init"
    /\ \E u \in todo :
        /\ m_url' = u
        /\ \/ \* get_info returns None
              /\ todo' = todo \ {u}
              /\ UNCHANGED <<product_history, mpc, mfault, locks, listenerVars,
                             new_info>>
           \/ \* get_info raises (response.json() or a missing key, main.py:120)
              /\ Crash("init_fetch")
              /\ UNCHANGED <<product_history, todo, new_info>>
           \/ \E r \in apiItems :
              /\ new_info' = [r EXCEPT !.nickname = product_urls[u]]
              /\ mpc' = "init_store"
              /\ UNCHANGED <<product_history, todo, mfault, locks, listenerVars>>
    /\ UNCHANGED <<fetchVars, carry_on, apiItems, product_urls, file, old_info,
                   skipped, notes>>

\* main.py:280 and 286, "with product_history_lock:" inside the with block of
\* main.py:303
M_InitLock ==
    /\ \/ mpc = "init_store"
       \/ mpc = "init" /\ todo = {} /\ ~carry_on
    /\ product_history_lock = "free"
    /\ product_history_lock' = "main"
    /\ UNCHANGED <<fetchVars, carry_on, apiItems, shared, product_urls_lock,
                   mainVars, listenerVars>>

\* main.py:280-281, "product_history[url] = info" and the end of its with block
M_InitStore ==
    /\ mpc = "init_store"
    /\ product_history_lock = "main"
    /\ product_history' = Put(product_history, GetInfoUrl(m_url), new_info)
    /\ product_history_lock' = "free"
    /\ todo' = todo \ {m_url}
    /\ new_info' = NoInfo
    /\ mpc' = "init"
    /\ UNCHANGED <<fetchVars, carry_on, apiItems, product_urls, file,
                   product_urls_lock, mfault, m_url, old_info, skipped, notes,
                   listenerVars>>

\* main.py:285-288 and the end of the with block of main.py:303
M_InitNotify ==
    /\ mpc = "init"
    /\ todo = {}
    /\ IF carry_on
       THEN /\ notes' = <<>>
            /\ mpc' = "loop"
            /\ product_urls_lock' = "free"
            /\ UNCHANGED <<mfault, listenerVars, product_history_lock>>
       ELSE /\ product_history_lock = "main"
            /\ \E o \in Orders(DOMAIN product_history) :
              LET all == [i \in DOMAIN o |-> NotifyProductAdded(product_history[o[i]])]
              IN  \/ /\ notes' = all
                     /\ mpc' = "loop"
                     /\ product_urls_lock' = "free"
                     /\ product_history_lock' = "free"
                     /\ UNCHANGED <<mfault, listenerVars>>
                  \/ \* requests.post raises in the j-th call
                     \E j \in 1..Len(all) :
                        /\ notes' = SubSeq(all, 1, j)
                        /\ Crash("init_post")
    /\ m_url' = U2
    /\ UNCHANGED <<fetchVars, carry_on, apiItems, shared, todo, old_info, new_info,
                   skipped>>

\* main.py:308-309, "with product_history_lock: for url, old_info in ..."
M_CycleStart ==
    /\ mpc = "loop"
    /\ product_history_lock = "free"
    /\ product_history_lock' = "main"
    /\ todo' = DOMAIN product_history
    /\ skipped' = {}
    /\ notes' = <<>>
    /\ mpc' = "fetch"
    /\ UNCHANGED <<fetchVars, carry_on, apiItems, shared, product_urls_lock, mfault, m_url,
                   old_info, new_info, listenerVars>>

\* main.py:309-317, the next key and its re-fetch
M_Fetch ==
    /\ mpc = "fetch"
    /\ \E u \in todo :
        /\ m_url' = u
        /\ old_info' = product_history[u]
        /\ UNCHANGED notes
        /\ \/ \* get_info returns None: log and continue
              /\ new_info' = NoInfo
              /\ skipped' = skipped \cup {u}
              /\ todo' = todo \ {u}
              /\ mpc' = "next"
              /\ UNCHANGED <<mfault, listenerVars, locks>>
           \/ \* get_info raises
              /\ new_info' = NoInfo
              /\ Crash("fetch")
              /\ UNCHANGED <<skipped, todo>>
           \/ \E r \in apiItems :
              /\ new_info' = [r EXCEPT !.nickname = product_history[u].nickname]
              /\ mpc' = "diff"
              /\ UNCHANGED <<skipped, todo, mfault, locks, listenerVars>>
    /\ UNCHANGED <<fetchVars, carry_on, apiItems, shared>>

\* the record is stored under the url written with display codes (the lines
\* main.py:203 and 207, which are comments)
StoreDisplayCodes(history, key, info) ==
    Put(history,
        Url(key.scheme, key.path, NoCode, NoCode, Digits(key.colorCode),
            Digits(key.sizeCode), FALSE),
        [info EXCEPT !.has_change = TRUE])

\* main.py:387-398, "product_history[url] = new_info" with url the canonical
\* url get_info returned
Store(history, key, info) == Put(history, key, [info EXCEPT !.has_change = TRUE])

\* main.py:324-398, the checks, their notifications and the update of the store
M_Diff ==
    /\ mpc = "diff"
    /\ LET all == Diff(old_info, new_info)
           key == GetInfoUrl(m_url)
       IN  \/ /\ notes' = all
              /\ product_history' = Store(product_history, key, new_info)
              /\ todo' = todo \ {m_url}
              /\ IF key \in DOMAIN product_history
                 THEN /\ mpc' = "next"
                      /\ UNCHANGED <<mfault, listenerVars, locks>>
                 ELSE \* dictionary changed size during iteration
                      Crash("RuntimeError")
           \/ \* requests.post raises in the j-th call
              \E j \in 1..Len(all) :
                 /\ notes' = SubSeq(all, 1, j)
                 /\ Crash("post")
                 /\ UNCHANGED <<product_history, todo>>
    /\ UNCHANGED <<fetchVars, carry_on, apiItems, product_urls, file, m_url, old_info,
                   new_info, skipped>>

\* main.py:309, the loop body has ended (the continue of main.py:313, or its
\* last statement): the names it bound are dead
M_Continue ==
    /\ mpc = "next"
    /\ mpc' = "fetch"
    /\ m_url' = U2
    /\ old_info' = NoInfo
    /\ new_info' = NoInfo
    /\ notes' = <<>>
    /\ UNCHANGED <<fetchVars, carry_on, apiItems, shared, locks, mfault, todo, skipped,
                   listenerVars>>

\* main.py:400-441, the report rows read info["quantity_change"] of every entry
M_Report ==
    /\ mpc = "fetch"
    /\ todo = {}
    /\ IF \E u \in DOMAIN product_history : ~product_history[u].has_change
       THEN /\ Crash("KeyError")
            /\ UNCHANGED skipped
       ELSE /\ mpc' = "sleep"
            /\ product_history_lock' = "free"
            /\ skipped' = {}
            /\ UNCHANGED <<mfault, listenerVars, product_urls_lock>>
    /\ UNCHANGED <<fetchVars, carry_on, apiItems, shared, todo, m_url, old_info, new_info,
                   notes>>

\* main.py:443, time.sleep(refresh_time)
M_Sleep ==
    /\ mpc = "sleep"
    /\ mpc' = "loop"
    /\ UNCHANGED <<fetchVars, carry_on, apiItems, shared, locks, mfault, todo, m_url,
                   old_info, new_info, skipped, notes, listenerVars>>

\* ------------------------------------------------------- the listener
\* The listener runs while the process does.
Alive == mpc # "crashed"

\* the control lines of the model
LineUrls == {U1d, U2h}
Lines ==
    {[domain |-> TRUE, remove |-> FALSE, name |-> TRUE, url |-> u, nickname |-> "b"]
        : u \in LineUrls}
    \cup
    {[domain |-> TRUE, remove |-> TRUE, name |-> FALSE, url |-> u, nickname |-> ""]
        : u \in LineUrls}
    \cup
    {[domain |-> TRUE, remove |-> FALSE, name |-> FALSE, url |-> U1c, nickname |-> ""],
     [domain |-> FALSE, remove |-> FALSE, name |-> TRUE, url |-> U1c, nickname |-> "b"]}

\* main.py:509-518, either except branch: log, sleep, continue
Except ==
    /\ lpc' = "retry"
    /\ llog' = "error"

\* The names a loop body binds are dead once the body has ended.
ResetLocals ==
    /\ line' = NoLine
    /\ l_url' = U2
    /\ res' = NoRes
    /\ is_removed' = FALSE
    /\ llog' = ""
    /\ lnotes' = <<>>

\* main.py:453, requests.get(..., stream=True)
L_Subscribe ==
    /\ Alive
    /\ lpc = "subscribe"
    /\ \/ /\ lpc' = "wait"
          /\ UNCHANGED llog
       \/ Except
    /\ UNCHANGED <<fetchVars, carry_on, apiItems, shared, locks, mainVars, line, l_url, res,
                   is_removed, lnotes, lastAdd>>

\* main.py:512 and 517, time.sleep(5) and continue
L_Retry ==
    /\ Alive
    /\ lpc = "retry"
    /\ lpc' = "subscribe"
    /\ ResetLocals
    /\ lastAdd' = IF line.domain /\ line.name /\ ~line.remove THEN lastAdd ELSE NoAdd
    /\ UNCHANGED <<fetchVars, carry_on, apiItems, shared, locks, mainVars>>

\* main.py:454, the loop body has ended (a continue, or its last statement)
L_Continue ==
    /\ Alive
    /\ lpc = "next"
    /\ lpc' = "wait"
    /\ ResetLocals
    /\ lastAdd' = IF line.domain /\ line.name /\ ~line.remove THEN lastAdd ELSE NoAdd
    /\ UNCHANGED <<fetchVars, carry_on, apiItems, shared, locks, mainVars>>

\* main.py:454, iter_lines raises
L_StreamError ==
    /\ Alive
    /\ lpc = "wait"
    /\ Except
    /\ UNCHANGED <<fetchVars, carry_on, apiItems, shared, locks, mainVars, line, l_url, res,
                   is_removed, lnotes, lastAdd>>

\* main.py:454 and 519, iter_lines is exhausted: the for loop ends and the
\* break after the try statement leaves the while loop
StreamEnd == "stopped"

L_StreamEnd ==
    /\ Alive
    /\ lpc = "wait"
    /\ lpc' = StreamEnd
    /\ lastAdd' = NoAdd
    /\ UNCHANGED <<fetchVars, carry_on, apiItems, shared, locks, mainVars, line, l_url, res,
                   is_removed, llog, lnotes>>

\* main.py:454-459 and 483-486: the next line of the stream, and the branch
\* its text selects
L_Read ==
    /\ Alive
    /\ lpc = "wait"
    /\ \E l \in Lines :
        /\ line' = l
        /\ IF l.domain /\ l.remove
           THEN /\ l_url' = ParseUniqloUrl(l.url)
                /\ lpc' = "rm_fetch"
                /\ lastAdd' = IF lastAdd.url = l.url THEN lastAdd ELSE NoAdd
           ELSE IF l.domain /\ l.name
                THEN /\ l_url' = ParseUniqloUrl(l.url)
                     /\ lpc' = "add_fetch"
                     /\ lastAdd' = [valid |-> TRUE, url |-> l.url,
                                    urls |-> product_urls, file |-> file,
                                    accepted |-> FALSE]
                ELSE /\ lpc' = "next"
                     /\ UNCHANGED <<l_url, lastAdd>>
    /\ UNCHANGED <<fetchVars, carry_on, apiItems, shared, locks, mainVars, res, is_removed,
                   llog, lnotes>>

\* the url of the command line is kept whatever get_info returns
ResolvedUrlRaw(url, r) == url

\* main.py:462-463, "if res: _, url = res"
ResolvedUrl(url, r) == IF r.ok THEN GetInfoUrl(url) ELSE url

\* main.py:461-463, "res = get_info(url)" and the url the command goes on with
L_RemoveFetch ==
    /\ Alive
    /\ lpc = "rm_fetch"
    /\ \/ /\ \E r \in {NoRes} \cup {[ok |-> TRUE, info |-> i] : i \in apiItems} :
                /\ res' = r
                /\ l_url' = ResolvedUrl(l_url, r)
          /\ lpc' = "rm_urls"
          /\ UNCHANGED llog
       \/ \* get_info raises
          /\ Except
          /\ UNCHANGED <<res, l_url>>
    /\ UNCHANGED <<fetchVars, carry_on, apiItems, shared, locks, mainVars, line, is_removed,
                   lnotes, lastAdd>>

\* the positions at which the listener enters "with product_urls_lock:"
\* (main.py:465 and 502) and "with product_history_lock:" (main.py:473 and 297)
UrlsLockPoints == {"rm_urls", "add_urls"}

\* the block of main.py:473 nested in the block of main.py:465, entered first
HistoryLockPointsNested == {"rm_urls", "rm_history", "add_history"}

HistoryLockPoints == {"rm_history", "add_history"}

\* main.py:465 and 502, "with product_urls_lock:"
L_LockUrls ==
    /\ Alive
    /\ lpc \in UrlsLockPoints
    /\ product_urls_lock = "free"
    /\ product_urls_lock' = "listener"
    /\ UNCHANGED <<fetchVars, carry_on, apiItems, shared, product_history_lock,
                   mainVars, listenerVars>>

\* main.py:473 and 297, "with product_history_lock:"
L_LockHistory ==
    /\ Alive
    /\ lpc \in HistoryLockPoints
    /\ product_history_lock = "free"
    /\ product_history_lock' = "listener"
    /\ UNCHANGED <<fetchVars, carry_on, apiItems, shared, product_urls_lock,
                   mainVars, listenerVars>>

\* products.json is left as it is
PersistNothing(urls) == file

\* main.py:468-470 and 504-506, json.dump(product_urls, open("products.json", "w"))
Persist(urls) == urls

\* main.py:466-471, the body of the with block and its end
L_RemoveUrls ==
    /\ Alive
    /\ lpc = "rm_urls"
    /\ product_urls_lock = "listener"
    /\ IF l_url \in DOMAIN product_urls
       THEN /\ product_urls' = Without(product_urls, l_url)
            /\ file' = Persist(product_urls')
            /\ is_removed' = TRUE
       ELSE UNCHANGED <<product_urls, file, is_removed>>
    /\ product_urls_lock' = "free"
    /\ lpc' = "rm_history"
    /\ UNCHANGED <<fetchVars, carry_on, apiItems, product_history,
                   product_history_lock, mainVars, line,
                   l_url, res, llog, lnotes, lastAdd>>

\* main.py:474-482, the body of the with block, its end and the log line
L_RemoveHistory ==
    /\ Alive
    /\ lpc = "rm_history"
    /\ product_history_lock = "listener"
    /\ product_history_lock' = "free"
    /\ IF l_url \in DOMAIN product_history
       THEN /\ product_history' = Without(product_history, l_url)
            /\ is_removed' = TRUE
       ELSE UNCHANGED <<product_history, is_removed>>
    /\ llog' = IF is_removed' THEN "removed" ELSE "not_found"
    /\ lpc' = "next"
    /\ UNCHANGED <<fetchVars, carry_on, apiItems, product_urls, file,
                   product_urls_lock, mainVars, line,
                   l_url, res, lnotes, lastAdd>>

\* main.py:488, "res = get_info(url)"
L_AddFetch ==
    /\ Alive
    /\ lpc = "add_fetch"
    /\ \/ /\ res' = NoRes
          /\ lpc' = "add_check"
          /\ UNCHANGED llog
       \/ \E r \in apiItems :
          /\ res' = [ok |-> TRUE, info |-> r]
          /\ lpc' = "add_check"
          /\ UNCHANGED llog
       \/ /\ Except
          /\ UNCHANGED res
    /\ UNCHANGED <<fetchVars, carry_on, apiItems, shared, locks, mainVars, line, l_url,
                   is_removed, lnotes, lastAdd>>

\* only one of the two maps is looked at
TrackedUrlsOnly(url) == url \in DOMAIN product_urls

\* main.py:496, "url in product_urls or url in product_history"
Tracked(url) == url \in DOMAIN product_urls \/ url \in DOMAIN product_history

\* the url of the command line is kept
ResUrlRaw(url) == url

\* main.py:494, "info, url = res": the url get_info returned
ResUrl(url) == GetInfoUrl(url)

\* main.py:489-498
L_AddCheck ==
    /\ Alive
    /\ lpc = "add_check"
    /\ IF ~res.ok
       THEN /\ llog' = "fetch_failed"
            /\ lpc' = "next"
            /\ UNCHANGED <<l_url, lastAdd>>
       ELSE /\ l_url' = ResUrl(l_url)
            /\ IF Tracked(l_url')
               THEN /\ llog' = "exists"
                    /\ lpc' = "next"
                    /\ UNCHANGED lastAdd
               ELSE /\ lpc' = "add_history"
                    /\ lastAdd' = [lastAdd EXCEPT !.accepted = TRUE]
                    /\ UNCHANGED llog
    /\ UNCHANGED <<fetchVars, carry_on, apiItems, shared, locks, mainVars, line, res,
                   is_removed, lnotes>>

\* main.py:293-298, process_new_products: the store and the end of its with
\* block
L_AddHistory ==
    /\ Alive
    /\ lpc = "add_history"
    /\ product_history_lock = "listener"
    /\ product_history' =
          Put(product_history, l_url, [res.info EXCEPT !.nickname = line.nickname])
    /\ product_history_lock' = "free"
    /\ lpc' = "add_notify"
    /\ UNCHANGED <<fetchVars, carry_on, apiItems, product_urls, file,
                   product_urls_lock, mainVars, line,
                   l_url, res, is_removed, llog, lnotes, lastAdd>>

\* main.py:299, notify_product_added(info)
L_AddNotify ==
    /\ Alive
    /\ lpc = "add_notify"
    /\ lnotes' = <<NotifyProductAdded(product_history[l_url])>>
    /\ \/ /\ lpc' = "add_urls"
          /\ UNCHANGED llog
       \/ \* requests.post raises
          Except
    /\ UNCHANGED <<fetchVars, carry_on, apiItems, shared, locks, mainVars, line, l_url, res,
                   is_removed, lastAdd>>

\* main.py:503-507, the body of the with block, its end and the log line
L_AddUrls ==
    /\ Alive
    /\ lpc = "add_urls"
    /\ product_urls_lock = "listener"
    /\ product_urls' = Put(product_urls, l_url, line.nickname)
    /\ file' = Persist(product_urls')
    /\ product_urls_lock' = "free"
    /\ llog' = "added"
    /\ lpc' = "next"
    /\ UNCHANGED <<fetchVars, carry_on, apiItems, product_history,
                   product_history_lock, mainVars, line,
                   l_url, res, is_removed, lnotes, lastAdd>>

\* --------------------------------------------------------- specifications
Main == M_Start \/ M_InitFetch \/ M_InitLock \/ M_InitStore \/ M_InitNotify
        \/ M_CycleStart \/ M_Fetch
        \/ M_Diff \/ M_Continue \/ M_Report \/ M_Sleep

Listener == L_Subscribe \/ L_Retry \/ L_Continue \/ L_StreamError \/ L_StreamEnd \/ L_Read
            \/ L_LockUrls \/ L_LockHistory
            \/ L_RemoveFetch \/ L_RemoveUrls \/ L_RemoveHistory
            \/ L_AddFetch \/ L_AddCheck \/ L_AddHistory \/ L_AddNotify
            \/ L_AddUrls

\* products.json as the process finds it
InitialUrls ==
    {<<>>, [u \in {U1d} |-> "a"], [u \in {U1c, U2} |-> "a"]}

InitLocals ==
    /\ product_urls_lock = "free"
    /\ product_history_lock = "free"
    /\ mfault = ""
    /\ todo = {}
    /\ m_url = U2
    /\ old_info = NoInfo
    /\ new_info = NoInfo
    /\ skipped = {}
    /\ notes = <<>>
    /\ lpc = "subscribe"
    /\ line = NoLine
    /\ l_url = U2
    /\ res = NoRes
    /\ is_removed = FALSE
    /\ llog = ""
    /\ lnotes = <<>>
    /\ lastAdd = NoAdd

\* no get_info call is followed step by step
FetchIdle ==
    /\ f_url = U2
    /\ fpc = "idle"
    /\ calls = 0
    /\ retries = 0
    /\ attempts = 0
    /\ sleeps = 0
    /\ gets = 0
    /\ response = NoBody
    /\ result = NoResult
    /\ fexc = ""

\* main.py:535-553, the state when the listener thread is started
Init ==
    /\ carry_on \in BOOLEAN
    /\ apiItems = FewRecords
    /\ product_urls \in InitialUrls
    /\ file = product_urls
    /\ product_history = <<>>
    /\ mpc = "start"
    /\ InitLocals
    /\ FetchIdle

Next == Main \/ Listener

Spec == Init /\ [][Next]_vars

\* The poll loop alone, on one tracked product and every record the retailer
\* may serve: the state after initialization, the listener still connecting.
InitDiff ==
    /\ carry_on = TRUE
    /\ apiItems = Records
    /\ product_urls = [u \in {U1c} |-> "a"]
    /\ file = product_urls
    /\ \E r \in Records :
          product_history = [u \in {U1c} |-> [r EXCEPT !.nickname = "a"]]
    /\ mpc = "loop"
    /\ InitLocals
    /\ FetchIdle

NextDiff == M_CycleStart \/ M_Fetch \/ M_Diff \/ M_Continue \/ M_Report \/ M_Sleep

SpecDiff == InitDiff /\ [][NextDiff]_vars

\* One get_info call, step by step, for every url of the model and whatever
\* the retailer answers to each requests.get.
FetchUrls == {U1c, U1d, U2, U2h}

InitFetch ==
    /\ carry_on = TRUE
    /\ apiItems = FewRecords
    /\ product_urls = <<>>
    /\ file = product_urls
    /\ product_history = <<>>
    /\ mpc = "start"
    /\ InitLocals
    /\ f_url \in FetchUrls
    /\ fpc = "call"
    /\ calls = 0
    /\ retries = 0
    /\ attempts = 0
    /\ sleeps = 0
    /\ gets = 0
    /\ response = NoBody
    /\ result = NoResult
    /\ fexc = ""

NextFetch == F_Call \/ F_GiveUp \/ F_Get \/ F_Sleep \/ F_Parse

SpecFetch == InitFetch /\ [][NextFetch]_vars

\* get_info is straight-line code between its calls: it goes on until it
\* returns or raises
FairFetch == SpecFetch /\ WF_vars(NextFetch)

\* ----------------------------------------------------------------- claims
\* The poll of m_url ran its checks to the end and stored new_info.
Diffed == mpc = "next" /\ new_info.valid

\* A requests.post of the poll of m_url raised and ended the main task.
DiffAborted == mpc = "crashed" /\ mfault = "post" /\ new_info.valid

StatusKinds == {"low_stock", "out_of_stock"}
QuantityKinds == {"quantity_down", "quantity_up"}

SameRecord(a, b) ==
    a.price = b.price /\ a.statusCode = b.statusCode /\ a.quantity = b.quantity

\* C1: a poll in which the status code changes into LOW_STOCK emits the
\* low-stock notification, the price-change notification exactly when the
\* price differs, and no quantity-change notification.
C1_NoQuantityNoteOnTransition ==
    (Diffed /\ old_info.statusCode # "LOW_STOCK"
            /\ new_info.statusCode = "LOW_STOCK")
    => /\ CountKind(notes, {"low_stock"}) = 1
       /\ CountKind(notes, {"price"})
            = (IF new_info.price # old_info.price THEN 1 ELSE 0)
       /\ CountKind(notes, QuantityKinds) = 0

\* C2: once initialization has finished the main task never halts, whatever
\* the fetches and the deliveries of a cycle do.
C2_PollLoopNeverHalts ==
    ~(mpc = "crashed" /\ mfault \notin {"init_fetch", "init_post"})

\* C3: a product whose re-fetch failed is skipped for that cycle only: its
\* record is unchanged, nothing is notified for it, and the cycle goes on to
\* the other products and to the next cycle.
C3_FailedFetchSkipsOnly ==
    /\ (mpc = "next" /\ ~new_info.valid)
          => /\ m_url \in skipped
             /\ product_history[m_url] = old_info
             /\ notes = <<>>
    /\ skipped # {} => mpc # "crashed"

\* C4: the listener never stops while the process runs.
C4_ListenerNeverStops == ~(lpc = "stopped" /\ mpc # "crashed")

\* The listener has processed a remove command / an add command to the end
\* of the loop body.
IsRemove(l) == l.domain /\ l.remove
IsAdd(l) == l.domain /\ ~l.remove /\ l.name
Canonical(l) == GetInfoUrl(ParseUniqloUrl(l.url))

\* C5 as claimed: after a remove command the canonical form of its URL is a
\* key of neither map, whether or not the fetch succeeded.
C5_CanonicalRemoved ==
    [][(lpc = "rm_history" /\ lpc' = "next")
        => /\ Canonical(line) \notin DOMAIN product_urls'
           /\ Canonical(line) \notin DOMAIN product_history']_vars

\* C5 as amended: the command goes on with the canonical form when the fetch
\* succeeded and with the URL as given when it failed; that URL is deleted
\* from each map that holds it, the file is rewritten with the Watch-list,
\* every other entry is unchanged, and a removal is logged exactly when the
\* URL was in one of the maps.
C5_ResolvedRemoved ==
    [][/\ (lpc = "rm_fetch" /\ lpc' = "rm_urls")
            => l_url' = IF res'.ok THEN Canonical(line) ELSE ParseUniqloUrl(line.url)
       /\ (lpc = "rm_urls" /\ lpc' = "rm_history")
            => /\ DOMAIN product_urls' = DOMAIN product_urls \ {l_url}
               /\ \A u \in DOMAIN product_urls' : product_urls'[u] = product_urls[u]
               /\ file' = IF l_url \in DOMAIN product_urls THEN product_urls' ELSE file
               /\ is_removed' = (l_url \in DOMAIN product_urls)
               /\ UNCHANGED product_history
       /\ (lpc = "rm_history" /\ lpc' = "next")
            => /\ DOMAIN product_history' = DOMAIN product_history \ {l_url}
               /\ \A u \in DOMAIN product_history' :
                     product_history'[u] = product_history[u]
               /\ l_url \notin DOMAIN product_urls'
               /\ (llog' = "removed") = (is_removed \/ l_url \in DOMAIN product_history)
               /\ llog' \in {"removed", "not_found"}
               /\ UNCHANGED <<product_urls, file>>
      ]_vars

\* a remove command whose fetch succeeded has removed a tracked product
C5_Witness ==
    /\ lpc = "next" /\ IsRemove(line) /\ res.ok /\ llog = "removed"
    /\ line.url # l_url
    /\ l_url \notin DOMAIN product_urls
    /\ l_url \notin DOMAIN product_history

\* C6 as claimed: an add command followed by a remove command for the same
\* URL leaves the Watch-list and its file as they were before the add.
C6_RoundTripAlways ==
    (lpc = "next" /\ IsRemove(line) /\ lastAdd.valid)
    => product_urls = lastAdd.urls /\ file = lastAdd.file

\* C6 as amended: it does so when the canonical form of the URL was not a key
\* of the Watch-list before the add and the fetch of the remove command
\* succeeded.
C6_RoundTripUntracked ==
    (lpc = "next" /\ IsRemove(line) /\ lastAdd.valid /\ res.ok
        /\ Canonical(line) \notin DOMAIN lastAdd.urls)
    => product_urls = lastAdd.urls /\ file = lastAdd.file

\* an accepted add was followed by the remove of the same URL, which removed it
C6_Witness ==
    /\ lpc = "next" /\ IsRemove(line) /\ lastAdd.valid /\ lastAdd.accepted /\ res.ok
    /\ lastAdd.url = line.url
    /\ llog = "removed"
    /\ product_urls = lastAdd.urls
    /\ DOMAIN product_urls # {}

\* C7: when the "added" notification of an add command is sent, the canonical
\* URL is a key of the Watch-list, of its file and of the Snapshot Store.
C7_NotifiedAfterBothInserts ==
    (IsAdd(line) /\ lnotes # <<>>)
    => /\ l_url \in DOMAIN product_urls
       /\ l_url \in DOMAIN file
       /\ l_url \in DOMAIN product_history

\* C8: a line without the product domain or without a marker, an add command
\* whose fetch fails and an add command whose canonical URL is tracked are
\* ignored: the listener goes on to the next line, and no step of it has
\* changed the Watch-list, its file or the Snapshot Store or sent anything.
C8_IgnoredLineChangesNothing ==
    [][/\ (lpc = "wait" /\ lpc' \in {"next", "rm_fetch", "add_fetch"}
              /\ (~line'.domain \/ (~line'.remove /\ ~line'.name)))
            => lpc' = "next" /\ UNCHANGED <<shared, lnotes>>
       /\ (lpc = "wait" /\ lpc' = "add_fetch") => UNCHANGED <<shared, lnotes>>
       /\ (lpc = "add_fetch" /\ lpc' = "add_check") => UNCHANGED <<shared, lnotes>>
       /\ (lpc = "add_check" /\ lpc' \in {"next", "add_history"}
              /\ (~res.ok \/ Canonical(line) \in DOMAIN product_urls
                          \/ Canonical(line) \in DOMAIN product_history))
            => lpc' = "next" /\ UNCHANGED <<shared, lnotes>>
      ]_vars

\* an add command for a product that is tracked has been ignored
C8_Witness ==
    /\ lpc = "next" /\ IsAdd(line) /\ res.ok /\ llog = "exists"
    /\ l_url \in DOMAIN product_history
    /\ lnotes = <<>>

\* C9 as claimed: a poll whose new status code differs from the old one emits
\* exactly one stock-status notification.
C9_EveryTransitionNotified ==
    (Diffed /\ new_info.statusCode # old_info.statusCode)
    => CountKind(notes, StatusKinds) = 1

\* C9 as amended: it emits exactly one, "low stock" or "out of stock", when
\* the new status code is LOW_STOCK or STOCK_OUT (unless the POST of the price
\* change raised before the status check was reached), and none when the new
\* status code is IN_STOCK.
C9_TransitionNotes ==
    ((Diffed \/ DiffAborted) /\ new_info.statusCode # old_info.statusCode)
    => IF new_info.statusCode = "IN_STOCK"
       THEN CountKind(notes, StatusKinds) = 0
       ELSE \/ /\ CountKind(notes, StatusKinds) = 1
               /\ CountKind(notes, {IF new_info.statusCode = "LOW_STOCK"
                                    THEN "low_stock" ELSE "out_of_stock"}) = 1
            \/ /\ DiffAborted
               /\ Len(notes) = 1
               /\ notes[1].kind = "price"

\* a poll IN_STOCK -> STOCK_OUT has sent its one notification
C9_Witness ==
    /\ Diffed
    /\ old_info.statusCode = "IN_STOCK"
    /\ new_info.statusCode = "STOCK_OUT"
    /\ CountKind(notes, {"out_of_stock"}) = 1

\* C10: a poll whose new record has the price, status code and quantity of
\* the stored one emits no notification.
C10_SameRecordNoNotes ==
    (new_info.valid /\ mpc \in {"next", "crashed"} /\ SameRecord(old_info, new_info))
    => notes = <<>> /\ mpc = "next"

\* a poll of an unchanged LOW_STOCK record has ended
C10_Witness ==
    /\ Diffed
    /\ SameRecord(old_info, new_info)
    /\ old_info.statusCode = "LOW_STOCK"
    /\ notes = <<>>

IsPriceNote(n) == n.kind = "price"
IsQuantityNote(n) == n.kind \in QuantityKinds

\* C11: a poll whose new price differs from the stored one, up or down,
\* sends exactly one price-change notification, at priority 4 (high), with
\* the difference new price - old price; a poll whose price is the same
\* sends none.
C11_OnePriceNote ==
    ((Diffed \/ DiffAborted) /\ old_info.valid)
    => LET sent == SelectSeq(notes, IsPriceNote)
       IN  IF new_info.price # old_info.price
           THEN /\ Len(sent) = 1
                /\ sent[1].priority = 4
                /\ sent[1].diff = new_info.price - old_info.price
                /\ (sent[1].diff < 0) = (new_info.price < old_info.price)
           ELSE sent = <<>>

\* a poll in which the price went up has sent its price-change notification
C11_Witness ==
    /\ Diffed
    /\ new_info.price > old_info.price
    /\ notes # <<>>
    /\ notes[1].kind = "price"
    /\ notes[1].diff > 0

\* C12: a poll whose new status code is IN_STOCK or STOCK_OUT sends no
\* quantity-change notification, whatever the quantities.
C12_QuantityNoteOnlyLowStock ==
    (new_info.valid /\ mpc \in {"next", "crashed"}
        /\ new_info.statusCode \in {"IN_STOCK", "STOCK_OUT"})
    => CountKind(notes, QuantityKinds) = 0

\* a poll IN_STOCK -> IN_STOCK in which the quantity went down has ended
C12_Witness ==
    /\ Diffed
    /\ old_info.statusCode = "IN_STOCK"
    /\ new_info.statusCode = "IN_STOCK"
    /\ old_info.quantity > new_info.quantity
    /\ CountKind(notes, QuantityKinds) = 0

\* C13: a poll LOW_STOCK -> LOW_STOCK that ran its checks sends exactly one
\* "quantity down" notification when the quantity went down, at priority 5
\* with the critical tag exactly when the new quantity is <= 3 and at
\* priority 3 otherwise; exactly one "quantity up" notification at priority
\* 3 when it went up; none when it is the same.
C13_QuantityNote ==
    (Diffed /\ old_info.statusCode = "LOW_STOCK"
            /\ new_info.statusCode = "LOW_STOCK")
    => LET sent == SelectSeq(notes, IsQuantityNote)
       IN  IF old_info.quantity > new_info.quantity
           THEN /\ Len(sent) = 1
                /\ sent[1].kind = "quantity_down"
                /\ IF new_info.quantity <= 3
                   THEN sent[1].priority = 5 /\ sent[1].tags = "rotating_light"
                   ELSE sent[1].priority = 3 /\ sent[1].tags # "rotating_light"
           ELSE IF old_info.quantity < new_info.quantity
                THEN /\ Len(sent) = 1
                     /\ sent[1].kind = "quantity_up"
                     /\ sent[1].priority = 3
                ELSE sent = <<>>

\* a poll LOW_STOCK -> LOW_STOCK in which the quantity fell to 3 has sent
\* the escalated notification
C13_Witness ==
    /\ Diffed
    /\ old_info.statusCode = "LOW_STOCK"
    /\ new_info.statusCode = "LOW_STOCK"
    /\ old_info.quantity > new_info.quantity
    /\ new_info.quantity = 3
    /\ CountKind(notes, {"quantity_down"}) = 1
    /\ notes[Len(notes)].priority = 5

\* get_info has ended
FetchDone == fpc \in {"returned", "raised"}

\* C14: whatever the retailer answers, get_info ends by returning: it never
\* ends on an exception, and it returns a record only for a body whose
\* variant list has a variant matching the selector (None otherwise).
C14_FailureIsNone ==
    /\ fpc # "raised"
    /\ (fpc = "returned" /\ result.ok)
          => /\ response.kind = "item"
             /\ FirstMatch(response.l2s, ParseProductUrl(f_url)) # 0

\* C15: get_response makes at most 3 requests.get calls, with one sleep
\* between two consecutive ones, and none after a response was returned;
\* get_info calls get_info_from_api at most 5 times and not again after a
\* result, so at most 15 requests.get calls are made; get_info ends, and
\* when the last call has failed too it returns None.
C15_BoundedRetries ==
    /\ [](/\ attempts <= 3
          /\ calls <= 5
          /\ gets <= 15
          /\ fpc = "get" => sleeps = attempts /\ retries = attempts
          /\ fpc = "parse" => sleeps = attempts - 1 /\ retries = attempts - 1
          /\ (fpc = "returned" /\ ~result.ok) => calls = 5)
    /\ [][/\ fpc = "parse" => gets' = gets
          /\ fpc = "returned" => UNCHANGED <<calls, gets, result>>]_vars
    /\ <>FetchDone
    /\ (fpc = "call" /\ calls = 5) ~> (fpc = "returned" /\ ~result.ok)

\* every one of the 15 requests.get calls failed and get_info returned None
C15_Witness ==
    /\ fpc = "returned"
    /\ ~result.ok
    /\ calls = 5
    /\ gets = 15
    /\ response = NoBody

\* C16: whenever the Watch-list lock is free, products.json holds the
\* in-memory Watch-list.
C16_FileMirrorsWatchList ==
    product_urls_lock = "free" => file = product_urls

\* an add command has been applied and the lock released
C16_Witness ==
    /\ lpc = "next" /\ IsAdd(line) /\ llog = "added"
    /\ product_urls_lock = "free"
    /\ l_url \in DOMAIN file
    /\ file[l_url] = line.nickname

\* C17: with carry_on, initialization sends nothing; without it, it sends one
\* "added" notification per pre-populated entry it fetched and none for a
\* product the listener added; the listener sends one per add command.
C17_AddedOncePerProduct ==
    [][/\ (mpc = "init" /\ mpc' = "loop")
            => IF carry_on
               THEN notes' = <<>>
               ELSE /\ CountKind(notes', {"added"}) = Len(notes')
                    /\ Len(notes') = Cardinality(DOMAIN product_history)
                    /\ \A u \in DOMAIN product_history :
                          \E w \in DOMAIN product_urls : GetInfoUrl(w) = u
       /\ (lpc = "add_notify" /\ lpc' # "add_notify" /\ mpc' # "crashed")
            => CountKind(lnotes', {"added"}) = 1 /\ Len(lnotes') = 1
      ]_vars

\* The main task / the listener is at "with <lock>:" and does not hold it.
MainWaitsUrls == mpc = "start"
MainWaitsHistory ==
    \/ mpc = "loop"
    \/ /\ mpc = "init_store" \/ (mpc = "init" /\ todo = {} /\ ~carry_on)
       /\ product_history_lock # "main"
ListenerWaitsUrls == lpc \in UrlsLockPoints /\ product_urls_lock # "listener"
ListenerWaitsHistory ==
    lpc \in HistoryLockPoints /\ product_history_lock # "listener"

\* each thread waits for a lock the other one holds
Deadlocked ==
    \/ /\ MainWaitsUrls /\ product_urls_lock = "listener"
       /\ ListenerWaitsHistory /\ product_history_lock = "main"
    \/ /\ MainWaitsHistory /\ product_history_lock = "listener"
       /\ ListenerWaitsUrls /\ product_urls_lock = "main"

\* C18: no thread waits for the Watch-list lock while it holds the Snapshot
\* Store lock, no thread takes the Watch-list lock while it holds the Snapshot
\* Store lock (so a thread that holds both took the Watch-list lock first:
\* the main task during initialization), and the two threads never wait for
\* each other's lock.
C18_LockOrder ==
    /\ [](/\ ~(MainWaitsUrls /\ product_history_lock = "main")
          /\ ~(ListenerWaitsUrls /\ product_history_lock = "listener")
          /\ ~(product_urls_lock = "listener" /\ product_history_lock = "listener")
          /\ (product_urls_lock = "main" /\ product_history_lock = "main")
                => mpc \in {"init", "init_store"}
          /\ ~Deadlocked)
    /\ [][\A t \in {"main", "listener"} :
            (product_urls_lock # t /\ product_urls_lock' = t)
               => product_history_lock # t
         ]_vars

\* the main task holds both locks while the listener waits for one of them
C18_Witness ==
    /\ product_urls_lock = "main"
    /\ product_history_lock = "main"
    /\ ListenerWaitsHistory

\* C19: while the poll loop fetches a product or sends its notifications it
\* holds neither lock.
C19_NoLockAcrossNetworkCall ==
    (mpc = "diff" \/ (mpc = "fetch" /\ todo # {}))
    => product_history_lock # "main" /\ product_urls_lock # "main"

\* the positions of a poll cycle, from the start of its iteration to the
\* report rows
CyclePcs == {"fetch", "diff", "next"}

\* C20: no step taken while a poll cycle is running, by the listener or by
\* the cycle, changes the key set of the Snapshot Store or the nickname of an
\* entry.
C20_KeySetConstantInCycle ==
    [][(mpc \in CyclePcs)
        => /\ DOMAIN product_history' = DOMAIN product_history
           /\ \A u \in DOMAIN product_history :
                 product_history'[u].nickname = product_history[u].nickname
      ]_vars

\* the cycle has stored a new record while the listener waits to apply a
\* command to the Snapshot Store
C20_Witness ==
    /\ Diffed
    /\ product_history_lock = "main"
    /\ ListenerWaitsHistory
    /\ product_history[m_url].has_change

\* C21: whenever the listener waits for its next control line, also after it
\* has subscribed again, the canonical URL of the add command it accepted
\* last is a key of both the Watch-list and the Snapshot Store or of neither.
C21_AddAllOrNothing ==
    (lpc = "wait" /\ lastAdd.valid /\ lastAdd.accepted)
    => LET u == GetInfoUrl(ParseUniqloUrl(lastAdd.url))
       IN  (u \in DOMAIN product_urls) = (u \in DOMAIN product_history)

====
